---- MODULE Spec2Model ----
(***************************************************************************)
(* Model of the rasterization pipeline of chapter_4_vector.ipynb: the      *)
(* "Pure Python version" cell opens the reference raster, reads its grid,  *)
(* creates training_data.gtif as a one-band Byte raster, fills it with 0,  *)
(* burns the polygon layer with gdal.RasterizeLayer, closes the dataset    *)
(* and reports the status.  The gdal_rasterize cell produces the same file *)
(* without -at, that is with all_touched off.  Before it, the first cells  *)
(* open training_data.shp with ogr.Open and take its driver and layer.     *)
(*                                                                         *)
(* Geometry: coordinates are integers, the grid origin is (0,0), the       *)
(* pixel width is pw and the pixel height ph (negative: north-up).         *)
(* Polygons are axis-parallel rectangles whose corners have odd            *)
(* coordinates, so that no polygon edge lies on a cell border or runs      *)
(* through a cell centre.                                                  *)
(***************************************************************************)
EXTENDS Integers, Sequences, FiniteSets, TLC

\* Bounds of the model.
MaxFeatures == 2
MaxSize == 2

\* gdal.GDT_Byte cells hold 0..255.
ByteMax == 255
\* CPLErr: CE_None and CE_Failure.
CE_None == 0
CE_Failure == 3
\* status before RasterizeLayer has returned.
Unset == -1

Min(a, b) == IF a < b THEN a ELSE b
Max(a, b) == IF a < b THEN b ELSE a

\* The polygons of the layer: rectangles [xmin, xmax] x [ymin, ymax].
\*   edge: contains the centre of cell (0,0) and reaches into column 1
\*   big : contains cell (0,0) whole, its border runs through (1,0),(0,1),(1,1)
\*   far : lies in column 2, outside a grid of at most two columns
Shapes ==
  { [xmin |-> 1, xmax |-> 5, ymin |-> -3, ymax |-> -1],
    [xmin |-> -1, xmax |-> 5, ymin |-> -5, ymax |-> 1],
    [xmin |-> 9, xmax |-> 11, ymin |-> -3, ymax |-> -1] }

\* Values of the Integer64 field 'id': 5 is a class label of the training
\* data, 300 does not fit a Byte.
Ids == {5, 300}

Features == [geom : Shapes, id : Ids]

\* Pixel sizes a geotransform may hold; 0 makes it non-invertible.
PixelWidths == {0, 4}
PixelHeights == {0, -4}

Cells(nc, nr) == (0 .. nc - 1) \X (0 .. nr - 1)

\* Scanline fill: the cells whose centre lies inside the polygon.
CenterInside(g, cell, e) ==
  /\ 2 * g.xmin < (2 * cell[1] + 1) * e.pw
  /\ (2 * cell[1] + 1) * e.pw < 2 * g.xmax
  /\ 2 * g.ymin < (2 * cell[2] + 1) * e.ph
  /\ (2 * cell[2] + 1) * e.ph < 2 * g.ymax

ColLo(c, e) == Min(c * e.pw, (c + 1) * e.pw)
ColHi(c, e) == Max(c * e.pw, (c + 1) * e.pw)
RowLo(r, e) == Min(r * e.ph, (r + 1) * e.ph)
RowHi(r, e) == Max(r * e.ph, (r + 1) * e.ph)

\* The cell and the polygon overlap.
Overlaps(g, cell, e) ==
  /\ g.xmin < ColHi(cell[1], e) /\ ColLo(cell[1], e) < g.xmax
  /\ g.ymin < RowHi(cell[2], e) /\ RowLo(cell[2], e) < g.ymax

\* The cell lies wholly in the polygon's interior.
Interior(g, cell, e) ==
  /\ g.xmin < ColLo(cell[1], e) /\ ColHi(cell[1], e) < g.xmax
  /\ g.ymin < RowLo(cell[2], e) /\ RowHi(cell[2], e) < g.ymax

\* ALL_TOUCHED: the cells the polygon's boundary lines run through.
OnBoundary(g, cell, e) == Overlaps(g, cell, e) /\ ~Interior(g, cell, e)

\* Faulty variant: ALL_TOUCHED burns the boundary cells and skips the fill.
CoveredCellsBoundaryOnly(g, nc, nr, e, at) ==
  { cell \in Cells(nc, nr) :
      IF at THEN OnBoundary(g, cell, e) ELSE CenterInside(g, cell, e) }

\* Faulty variant: the column index wraps around the raster width.
CoveredCellsWrap(g, nc, nr, e, at) ==
  { cell \in Cells(nc, nr) :
      \E k \in {0, 1} :
        LET h == [g EXCEPT !.xmin = g.xmin - k * nc * e.pw,
                           !.xmax = g.xmax - k * nc * e.pw]
        IN CenterInside(h, cell, e) \/ (at /\ OnBoundary(h, cell, e)) }

\* The cells of the raster one polygon burns: the fill, and with
\* ALL_TOUCHED=TRUE also the cells its boundary touches.
CoveredCells(g, nc, nr, e, at) ==
  { cell \in Cells(nc, nr) :
      CenterInside(g, cell, e) \/ (at /\ OnBoundary(g, cell, e)) }

\* The burn value as a GDT_Byte cell.  A value outside 0..255 is converted
\* as the build converts a double to unsigned char: modulo 256, or clamped.
ByteStore(v, mode) ==
  IF 0 <= v /\ v <= ByteMax THEN v
  ELSE IF mode = "wrap" THEN v % (ByteMax + 1)
  ELSE IF v < 0 THEN 0 ELSE ByteMax

\* Burn one feature into the band (MERGE_ALG defaults to REPLACE).
BurnFeature(band, f, nc, nr, e, at, mode) ==
  [cell \in DOMAIN band |->
     IF cell \in CoveredCells(f.geom, nc, nr, e, at)
     THEN ByteStore(f.id, mode) ELSE band[cell]]

\* Faulty variant: Create(path, nrow, ncol, ...) with the sizes swapped.
CreateRasterSwapped(nc, nr) == [cell \in Cells(nr, nc) |-> 0]

\* driver.Create(path, ncol, nrow, 1, GDT_Byte): a new file, one band.
CreateRaster(nc, nr) == [cell \in Cells(nc, nr) |-> 0]

\* b.Fill(0)
FillBand(band, v) == [cell \in DOMAIN band |-> v]

\* Faulty variant: the layer is read on from where the last pass left it.
ResetReadingKeep(cur) == cur

\* OGR_L_ResetReading at the start of RasterizeLayer.
ResetReading(cur) == 1

NoFile == [exists |-> FALSE, band |-> <<>>]
NoExt == [pw |-> 0, ph |-> 0]

VARIABLES
  dataset,        \* handle of training_data.shp: "unopened", "open" or "none"
  dsOps,          \* the methods called on the dataset handle so far
  layer,          \* the features of the polygon layer, in file order
  ref,            \* the reference raster: its size and geotransform
  castMode,       \* how the build converts an out-of-range burn value
  pc,             \* position in the "Pure Python version" cell
  raster_ds,      \* handle of the reference raster
  ncol, nrow,     \* RasterXSize, RasterYSize as read
  ext,            \* the geotransform as read
  out_raster_ds,  \* handle of the output dataset
  out,            \* training_data.gtif on disk
  all_touched,    \* the ALL_TOUCHED option of this pass
  cursor,         \* read cursor of the layer
  burned,         \* cells written by the pass so far
  status,         \* return value of RasterizeLayer
  printed,        \* what the cell printed
  raised,         \* the exception that ended the cell, "" if none
  run,            \* 1: first execution, 2: second execution
  first           \* outcome of the first execution

vars == << dataset, dsOps, layer, ref, castMode, pc, raster_ds, ncol, nrow,
           ext, out_raster_ds, out, all_touched, cursor, burned, status,
           printed, raised, run, first >>

inputs == << layer, ref, castMode >>

vector == << dataset, dsOps >>

NoFirst == [done |-> FALSE, at |-> FALSE, status |-> Unset, out |-> NoFile,
            burned |-> {}]

Init ==
  /\ layer \in UNION { [1 .. n -> Features] : n \in 0 .. MaxFeatures }
  /\ ref \in [xsize : 1 .. MaxSize, ysize : 1 .. MaxSize,
              pw : PixelWidths, ph : PixelHeights]
  /\ castMode \in {"wrap", "saturate"}
  /\ dataset = "unopened"
  /\ dsOps = {}
  /\ pc = "ogr_open"
  /\ raster_ds = "none"
  /\ ncol = 0 /\ nrow = 0 /\ ext = NoExt
  /\ out_raster_ds = "none"
  /\ out = NoFile
  /\ all_touched = TRUE
  /\ cursor = 1
  /\ burned = {}
  /\ status = Unset
  /\ printed = ""
  /\ raised = ""
  /\ run = 1
  /\ first = NoFirst

\* dataset = ogr.Open('../../example/training_data.shp')
OgrOpen ==
  /\ pc = "ogr_open"
  /\ dataset' = "open"
  /\ pc' = "inspect"
  /\ UNCHANGED << dsOps, inputs, raster_ds, ncol, nrow, ext, out_raster_ds,
                  out, all_touched, cursor, burned, status, printed, raised,
                  run, first >>

\* ogr.Open returned None: "if not dataset" prints the message, and the
\* notebook goes on to the next cell.
OgrOpenFails ==
  /\ pc = "ogr_open"
  /\ dataset' = "none"
  /\ printed' = "Error: could not open dataset"
  /\ pc' = "inspect"
  /\ UNCHANGED << dsOps, inputs, raster_ds, ncol, nrow, ext, out_raster_ds,
                  out, all_touched, cursor, burned, status, raised, run,
                  first >>

\* driver = dataset.GetDriver(); layer_count = dataset.GetLayerCount();
\* layer = dataset.GetLayerByIndex(0), and the layer's properties are printed.
Inspect ==
  /\ pc = "inspect"
  /\ dataset = "open"
  /\ dsOps' = {"GetDriver", "GetLayerCount", "GetLayerByIndex"}
  /\ pc' = "open"
  /\ UNCHANGED << dataset, inputs, raster_ds, ncol, nrow, ext, out_raster_ds,
                  out, all_touched, cursor, burned, status, printed, raised,
                  run, first >>

\* On a dataset that is None the first call, dataset.GetDriver(), raises and
\* ends the cell: layer is never bound.  The cells after it can still be run.
InspectNone ==
  /\ pc = "inspect"
  /\ dataset = "none"
  /\ dsOps' = {"GetDriver"}
  /\ raised' = "AttributeError"
  /\ pc' = "open"
  /\ UNCHANGED << dataset, inputs, raster_ds, ncol, nrow, ext, out_raster_ds,
                  out, all_touched, cursor, burned, status, printed, run,
                  first >>

\* raster_ds = gdal.Open(..., GA_ReadOnly)
OpenRaster ==
  /\ pc = "open"
  /\ raster_ds' = "open"
  /\ pc' = "read"
  /\ UNCHANGED << vector, inputs,
                  ncol, nrow, ext, out_raster_ds, out, all_touched,
                  cursor, burned, status, printed, raised, run, first >>

\* gdal.Open returned None: raster_ds.RasterXSize raises.
OpenRasterFails ==
  /\ pc = "open"
  /\ raster_ds' = "none"
  /\ raised' = "AttributeError"
  /\ pc' = "raised"
  /\ UNCHANGED << vector, inputs,
                  ncol, nrow, ext, out_raster_ds, out, all_touched,
                  cursor, burned, status, printed, run, first >>

\* ncol, nrow, proj, ext are read from the reference raster.
ReadGrid ==
  /\ pc = "read"
  /\ ncol' = ref.xsize
  /\ nrow' = ref.ysize
  /\ ext' = [pw |-> ref.pw, ph |-> ref.ph]
  /\ pc' = "release"
  /\ UNCHANGED << vector, inputs,
                  raster_ds, out_raster_ds, out, all_touched, cursor,
                  burned, status, printed, raised, run, first >>

\* raster_ds = None
ReleaseRaster ==
  /\ pc = "release"
  /\ raster_ds' = "closed"
  /\ pc' = "create"
  /\ UNCHANGED << vector, inputs,
                  ncol, nrow, ext, out_raster_ds, out, all_touched,
                  cursor, burned, status, printed, raised, run, first >>

\* out_raster_ds = memory_driver.Create(path, ncol, nrow, 1, gdal.GDT_Byte)
Create ==
  /\ pc = "create"
  /\ out' = [exists |-> TRUE, band |-> CreateRaster(ncol, nrow)]
  /\ out_raster_ds' = "open"
  /\ pc' = "georef"
  /\ UNCHANGED << vector, inputs,
                  raster_ds, ncol, nrow, ext, all_touched, cursor,
                  burned, status, printed, raised, run, first >>

\* Create returned None (the path cannot be written): SetProjection raises.
CreateFails ==
  /\ pc = "create"
  /\ raised' = "AttributeError"
  /\ pc' = "raised"
  /\ UNCHANGED << vector, inputs,
                  raster_ds, ncol, nrow, ext, out_raster_ds, out,
                  all_touched, cursor, burned, status, printed, run, first >>

\* out_raster_ds.SetProjection(proj); out_raster_ds.SetGeoTransform(ext)
SetGeoref ==
  /\ pc = "georef"
  /\ pc' = "fill"
  /\ UNCHANGED << vector, inputs,
                  raster_ds, ncol, nrow, ext, out_raster_ds, out,
                  all_touched, cursor, burned, status, printed, raised, run,
                  first >>

\* b = out_raster_ds.GetRasterBand(1); b.Fill(0)
Fill ==
  /\ pc = "fill"
  /\ out' = [out EXCEPT !.band = FillBand(out.band, 0)]
  /\ pc' = "rasterize"
  /\ UNCHANGED << vector, inputs, raster_ds, ncol, nrow, ext, out_raster_ds,
                  all_touched, cursor, burned, status, printed, raised, run,
                  first >>

\* gdal.RasterizeLayer is entered: the options are taken (ALL_TOUCHED=TRUE in
\* the Python cell, off for gdal_rasterize without -at), the layer is rewound
\* and the geotransform is inverted; a pixel size of 0 cannot be inverted.
RasterizeBegin ==
  /\ pc = "rasterize"
  /\ "GetLayerByIndex" \in dsOps
  /\ \E at \in BOOLEAN : all_touched' = at
  /\ cursor' = ResetReading(cursor)
  /\ burned' = {}
  /\ IF ext.pw = 0 \/ ext.ph = 0
     THEN status' = CE_Failure /\ pc' = "close"
     ELSE status' = status /\ pc' = "burn"
  /\ UNCHANGED << vector, inputs,
                  raster_ds, ncol, nrow, ext, out_raster_ds, out,
                  printed, raised, run, first >>

\* The name layer is not bound: evaluating the arguments of
\* gdal.RasterizeLayer raises, and the cell ends with the dataset open.
RasterizeUnbound ==
  /\ pc = "rasterize"
  /\ "GetLayerByIndex" \notin dsOps
  /\ raised' = "NameError"
  /\ pc' = "raised"
  /\ UNCHANGED << vector, inputs, raster_ds, ncol, nrow, ext, out_raster_ds,
                  out, all_touched, cursor, burned, status, printed, run,
                  first >>

\* The next feature of the layer is burned with its 'id' value.
BurnNext ==
  /\ pc = "burn"
  /\ cursor <= Len(layer)
  /\ out' = [out EXCEPT !.band =
               BurnFeature(out.band, layer[cursor], ncol, nrow, ext,
                           all_touched, castMode)]
  /\ burned' = burned \cup
               CoveredCells(layer[cursor].geom, ncol, nrow, ext, all_touched)
  /\ cursor' = cursor + 1
  /\ UNCHANGED << vector, inputs,
                  pc, raster_ds, ncol, nrow, ext, out_raster_ds,
                  all_touched, status, printed, raised, run, first >>

\* Reading a feature or writing a block fails: RasterizeLayer returns
\* CE_Failure with the features before it burned.
BurnFails ==
  /\ pc = "burn"
  /\ cursor <= Len(layer)
  /\ status' = CE_Failure
  /\ pc' = "close"
  /\ UNCHANGED << vector, inputs,
                  raster_ds, ncol, nrow, ext, out_raster_ds, out,
                  all_touched, cursor, burned, printed, raised, run, first >>

\* The layer is exhausted: RasterizeLayer returns CE_None.
RasterizeEnd ==
  /\ pc = "burn"
  /\ cursor > Len(layer)
  /\ status' = CE_None
  /\ pc' = "close"
  /\ UNCHANGED << vector, inputs,
                  raster_ds, ncol, nrow, ext, out_raster_ds, out,
                  all_touched, cursor, burned, printed, raised, run, first >>

\* Faulty variant: the status is examined with the output dataset still open.
CloseLeftOpen ==
  /\ pc = "close"
  /\ pc' = "report"
  /\ UNCHANGED << vector, inputs, raster_ds, ncol, nrow, ext, out_raster_ds,
                  out, all_touched, cursor, burned, status, printed, raised,
                  run, first >>

\* out_raster_ds = None
Close ==
  /\ pc = "close"
  /\ out_raster_ds' = "closed"
  /\ pc' = "report"
  /\ UNCHANGED << vector, inputs,
                  raster_ds, ncol, nrow, ext, out, all_touched,
                  cursor, burned, status, printed, raised, run, first >>

\* if status != 0: print("I don't think it worked...") else: print("Success")
Report ==
  /\ pc = "report"
  /\ printed' = IF status # 0 THEN "I don't think it worked..." ELSE "Success"
  /\ pc' = "done"
  /\ UNCHANGED << vector, inputs,
                  raster_ds, ncol, nrow, ext, out_raster_ds, out,
                  all_touched, cursor, burned, status, raised, run, first >>

\* After a pass that worked the cell is executed again on the same inputs;
\* the Python names are rebound as the cell runs, the file and the layer are
\* what the first execution left.
Rerun ==
  /\ pc = "done"
  /\ run = 1
  /\ status = CE_None
  /\ first' = [done |-> TRUE, at |-> all_touched, status |-> status,
               out |-> out, burned |-> burned]
  /\ run' = 2
  /\ pc' = "open"
  /\ status' = Unset
  /\ printed' = ""
  /\ UNCHANGED << vector, inputs,
                  raster_ds, ncol, nrow, ext, out_raster_ds, out,
                  all_touched, cursor, burned, raised >>

Next ==
  \/ OgrOpen
  \/ OgrOpenFails
  \/ Inspect
  \/ InspectNone
  \/ OpenRaster
  \/ OpenRasterFails
  \/ ReadGrid
  \/ ReleaseRaster
  \/ Create
  \/ CreateFails
  \/ SetGeoref
  \/ Fill
  \/ RasterizeBegin
  \/ RasterizeUnbound
  \/ BurnNext
  \/ BurnFails
  \/ RasterizeEnd
  \/ Close
  \/ Report
  \/ Rerun

Spec == Init /\ [][Next]_vars

-----------------------------------------------------------------------------
(* Properties *)

\* The pass has returned CE_None and the cell has finished.
Succeeded == pc = "done" /\ status = CE_None

\* The band has been filled and the pass is under way or over.
InPass == pc \in {"burn", "close", "report", "done"}

Representable(v) == 0 <= v /\ v <= ByteMax

\* Indices of the features whose coverage holds the cell.
Covering(cell) ==
  { i \in 1 .. Len(layer) :
      cell \in CoveredCells(layer[i].geom, ncol, nrow, ext, all_touched) }

Last(S) == CHOOSE i \in S : \A j \in S : j <= i

\* The polygon has no point in common with the extent of the raster.
OutsideExtent(g) ==
  \/ g.xmax <= Min(0, ncol * ext.pw) \/ g.xmin >= Max(0, ncol * ext.pw)
  \/ g.ymax <= Min(0, nrow * ext.ph) \/ g.ymin >= Max(0, nrow * ext.ph)

InsideExtent(f) == ~OutsideExtent(f.geom)

\* The features burned one after the other into a band, as one value.
RECURSIVE BurnAll(_, _, _, _, _, _, _)
BurnAll(band, fs, nc, nr, e, at, mode) ==
  IF fs = << >> THEN band
  ELSE BurnAll(BurnFeature(band, Head(fs), nc, nr, e, at, mode), Tail(fs),
               nc, nr, e, at, mode)

Blank == [cell \in Cells(ncol, nrow) |-> 0]

\* C1: after a pass that worked, a cell covered by two or more features holds
\* the attribute value of the covering feature that comes last in the layer.
C1_LastFeatureWins ==
  Succeeded =>
    \A cell \in Cells(ncol, nrow) :
      Cardinality(Covering(cell)) >= 2 =>
        out.band[cell] = layer[Last(Covering(cell))].id

\* C2: from the fill on, every cell of the output holds the background 0 or
\* the attribute value of some feature of the layer.
C2_BackgroundOrAttribute ==
  InPass =>
    \A cell \in DOMAIN out.band :
      out.band[cell] \in {0} \cup { layer[i].id : i \in 1 .. Len(layer) }

\* C3: with no feature in the layer a pass that worked leaves a raster of the
\* reference raster's columns and rows in which every cell is the background 0.
C3_EmptyLayerAllBackground ==
  (Succeeded /\ Len(layer) = 0) =>
    /\ out.exists
    /\ DOMAIN out.band = Cells(ref.xsize, ref.ysize)
    /\ \A cell \in DOMAIN out.band : out.band[cell] = 0

C3_Witness ==
  /\ Succeeded /\ Len(layer) = 0
  /\ ref.xsize = 2 /\ ref.ysize = 1

C5_NoPartialOutput ==
  (run = 1 /\ (pc = "raised" \/ status = CE_Failure)) => ~out.exists

\* C6: with a column or row count <= 0 or a pixel size of 0 in the grid taken
\* from the reference raster, no output raster is ever created.
C6_InvalidGridRejected ==
  (ref.xsize <= 0 \/ ref.ysize <= 0 \/ ref.pw = 0 \/ ref.ph = 0) =>
    (run = 1 => ~out.exists)

\* C7: with a feature whose attribute value does not fit the Byte band the
\* pass never returns CE_None, and no cell holds a converted value.
C7_UnrepresentableRejected ==
  (\E i \in 1 .. Len(layer) : ~Representable(layer[i].id)) =>
    /\ status # CE_None
    /\ run = 1 =>
         \A cell \in DOMAIN out.band :
           out.band[cell] \in {0} \cup { layer[i].id : i \in 1 .. Len(layer) }

\* C8: during and after the pass a cell that no burned polygon overlaps holds
\* the background 0, and the raster of a pass that worked is the one the
\* layer without its features outside the extent gives.
C8_OutsideFeatureNoEffect ==
  /\ InPass =>
       \A cell \in DOMAIN out.band :
         (\A i \in 1 .. Min(cursor - 1, Len(layer)) :
            ~Overlaps(layer[i].geom, cell, ext)) => out.band[cell] = 0
  /\ Succeeded =>
       out.band = BurnAll(Blank, SelectSeq(layer, InsideExtent), ncol, nrow,
                          ext, all_touched, castMode)

C8_Witness ==
  /\ Succeeded
  /\ \E i, j \in 1 .. Len(layer) :
       /\ i < j
       /\ InsideExtent(layer[i])
       /\ OutsideExtent(layer[j].geom)
  /\ \E cell \in DOMAIN out.band : out.band[cell] # 0

\* C9: a second pass with the same layer, grid and all_touched that worked
\* leaves the raster the first pass left, and the raster of any pass that
\* worked is the one its inputs alone give.
C9_Deterministic ==
  /\ (Succeeded /\ run = 2 /\ first.at = all_touched) => out = first.out
  /\ Succeeded =>
       out.band = BurnAll(Blank, layer, ncol, nrow, ext, all_touched, castMode)

C9_Witness ==
  /\ Succeeded /\ run = 2 /\ first.at = all_touched
  /\ Len(layer) = 2
  /\ \E c, d \in DOMAIN out.band : out.band[c] # 0 /\ out.band[d] # out.band[c]

\* Positions inside the rasterization cell, after its first statement.
RasterSteps ==
  {"read", "release", "create", "georef", "fill", "rasterize", "burn",
   "close", "report", "done"}

\* C11: once ogr.Open has yielded no dataset, 'Error: could not open dataset'
\* is printed, no method is called on the dataset handle and no step of the
\* rasterization runs.
C11_NoUseAfterFailedOpen ==
  dataset = "none" =>
    /\ printed = "Error: could not open dataset"
    /\ dsOps = {}
    /\ pc \notin RasterSteps
    /\ ~out.exists

Outcomes == {"Success", "I don't think it worked..."}

\* C12: the output dataset is open only after the reference raster has been
\* released; while features are burned every cell not yet burned holds the
\* fill value 0; the output dataset is closed when the status is examined
\* and after it, on the path of status 0 and on the path of a non-zero
\* status; nothing is reported before the cell's last statement, and there
\* "Success" is printed exactly when the status is 0.
C12_FixedOrder ==
  /\ out_raster_ds = "open" => raster_ds = "closed"
  /\ pc = "burn" =>
       \A cell \in DOMAIN out.band \ burned : out.band[cell] = 0
  /\ pc \in {"report", "done"} => out_raster_ds = "closed"
  /\ pc \in {"open"} \cup (RasterSteps \ {"done"}) => printed \notin Outcomes
  /\ pc = "done" =>
       /\ printed \in Outcomes
       /\ printed = "Success" <=> status = CE_None

C12_Witness ==
  /\ pc = "done"
  /\ status = CE_Failure
  /\ burned # {}
  /\ printed = "I don't think it worked..."
  /\ out_raster_ds = "closed"
  /\ raster_ds = "closed"

====
